---- MODULE Spec2Model ----
(***************************************************************************)
(* Model of src/app.py: the Real Intent -> KW Command converter.           *)
(*                                                                         *)
(* Text values (cells of the input table, cells of the output rows) are    *)
(* sequences of one-character strings, so that strip(), isdigit(),         *)
(* upper(), slicing and join() are computed character by character.        *)
(* Header labels are TLA+ strings (they are only concatenated and          *)
(* compared).  A raw input cell is a record [na, s]: na is TRUE for a      *)
(* missing value (NaN / None), s is the stringified value otherwise.       *)
(* Python's 0-based list positions are kept: At(row, k) is row_data[k].    *)
(***************************************************************************)
EXTENDS Integers, Sequences, FiniteSets, TLC

VARIABLES pc, uploaded, df, custom_tags, source_val, missing, i,
          output_rows, result, csv,
          phone_value, phone_out, phone_again,
          headers, unique

vars == <<pc, uploaded, df, custom_tags, source_val, missing, i,
          output_rows, result, csv,
          phone_value, phone_out, phone_again, headers, unique>>

convVars == <<uploaded, df, custom_tags, source_val, missing, i,
              output_rows, result, csv>>
phoneVars == <<phone_value, phone_out, phone_again>>
headerVars == <<headers, unique>>

(***************************************************************************)
(* Bounds of the model.                                                    *)
(***************************************************************************)
\* records in a table
MaxRows == 3
\* digits in each of the three digit runs of a phone value (0..3*MaxRun in all)
MaxRun == 4
\* labels in a list given to get_unique_headers
MaxLabels == 4

(***************************************************************************)
(* Constants of the program.                                               *)
(***************************************************************************)
KW_TEMPLATE_HEADERS ==
  << "First Name", "Middle Name", "Last Name", "Prefix", "Suffix", "Full Legal Name",
     "About", "Birthday", "Home Anniversary",
     "Cell Phone", "Is Primary? (mark Y)",
     "Home Phone", "Is Primary? (mark Y)",
     "Work Phone", "Is Primary? (mark Y)",
     "Other Phone", "Is Primary? (mark Y)",
     "Personal Email", "Primary? (mark Y)",
     "Work Email", "Primary? (mark Y)",
     "Other Email", "Primary? (mark Y)",
     "Address line one", "Address line two", "City", "State", "Zip code", "Country", "Label", "",
     "Address line one", "Address line two", "City", "State", "Zip code", "Country", "Label", "",
     "Address line one", "Address line two", "City", "State", "Zip code", "Country", "Label", "",
     "Tags", "Source", "Notes",
     "Facebook", "Twitter", "Linkedin", "Pinterest", "Instagram" >>

REQUIRED_COLUMNS == << "first_name", "last_name" >>

PhoneDigits == 10

(***************************************************************************)
(* Python / pandas primitives, computed on character sequences.            *)
(***************************************************************************)
Whitespace == {" ", "\t", "\n", "\r", "\f"}

Digits == {"0", "1", "2", "3", "4", "5", "6", "7", "8", "9"}

isdigit(c) == c \in Digits

RECURSIVE lstrip(_)
lstrip(s) ==
  IF s # <<>> /\ Head(s) \in Whitespace THEN lstrip(Tail(s)) ELSE s

RECURSIVE rstrip(_)
rstrip(s) ==
  IF s # <<>> /\ s[Len(s)] \in Whitespace THEN rstrip(SubSeq(s, 1, Len(s) - 1)) ELSE s

strip(s) == rstrip(lstrip(s))

Lower == << "a","b","c","d","e","f","g","h","i","j","k","l","m",
            "n","o","p","q","r","s","t","u","v","w","x","y","z" >>
Upper == << "A","B","C","D","E","F","G","H","I","J","K","L","M",
            "N","O","P","Q","R","S","T","U","V","W","X","Y","Z" >>

upperChar(c) ==
  IF \E k \in 1..Len(Lower) : Lower[k] = c
  THEN Upper[CHOOSE k \in 1..Len(Lower) : Lower[k] = c]
  ELSE c

upper(s) == [k \in 1..Len(s) |-> upperChar(s[k])]

RECURSIVE join(_, _)
join(sep, list) ==
  IF list = <<>> THEN <<>>
  ELSE IF Len(list) = 1 THEN list[1]
  ELSE list[1] \o sep \o join(sep, Tail(list))

\* A missing value (NaN, None) and a present value with stringified form s.
NaN == [na |-> TRUE, s |-> <<>>]
None == NaN
Str(s) == [na |-> FALSE, s |-> s]

pd_isna(v) == v.na

\* str(v): a present value is its text; str(nan) is "nan".
str(v) == IF v.na THEN <<"n", "a", "n">> ELSE v.s

\* row.get(col_name, default)
row_get(row, col_name, default) ==
  IF col_name \in DOMAIN row THEN row[col_name] ELSE default

(***************************************************************************)
(* format_phone_number                                                     *)
(***************************************************************************)
\* faulty variant: the middle group sliced as digits[3:7]
GroupedWrong(digits) ==
  SubSeq(digits, 1, 3) \o <<"-">> \o SubSeq(digits, 4, 7) \o <<"-">>
    \o SubSeq(digits, 8, Len(digits))

\* f"{digits[:3]}-{digits[3:6]}-{digits[6:]}"
Grouped(digits) ==
  SubSeq(digits, 1, 3) \o <<"-">> \o SubSeq(digits, 4, 6) \o <<"-">>
    \o SubSeq(digits, 7, Len(digits))

format_phone_number(phone_value_) ==
  IF pd_isna(phone_value_) THEN <<>>
  ELSE LET s == strip(str(phone_value_))
           digits == SelectSeq(s, isdigit)
       IN  IF Len(digits) = PhoneDigits THEN Grouped(digits)
           ELSE IF s # <<>> THEN s ELSE <<>>

(***************************************************************************)
(* get_unique_headers                                                      *)
(***************************************************************************)
\* f"{h}.{count}"
Suffixed(h, count) == h \o "." \o ToString(count)

\* One iteration of "for h in headers": st = [seen, unique]; seen is the
\* defaultdict(int), a function whose domain is the keys stored so far.
\* faulty variant: no label is ever suffixed
UniqueStepNoCheck(st, h) ==
  [seen |-> (h :> 1) @@ st.seen, unique |-> Append(st.unique, h)]

\* faulty variant: the suffix counts the current sighting too
UniqueStepOffByOne(st, h) ==
  IF h \in DOMAIN st.seen
  THEN [seen |-> [st.seen EXCEPT ![h] = @ + 1],
        unique |-> Append(st.unique, Suffixed(h, st.seen[h] + 1))]
  ELSE [seen |-> (h :> 1) @@ st.seen, unique |-> Append(st.unique, h)]

\* the body of the loop as written
UniqueStep(st, h) ==
  IF h \in DOMAIN st.seen
  THEN LET count == st.seen[h]
       IN  IF count = 0
           THEN [seen |-> [st.seen EXCEPT ![h] = @ + 1],
                 unique |-> Append(st.unique, h)]
           ELSE [seen |-> [st.seen EXCEPT ![h] = @ + 1],
                 unique |-> Append(st.unique, Suffixed(h, count))]
  ELSE [seen |-> (h :> 1) @@ st.seen, unique |-> Append(st.unique, h)]

RECURSIVE UniqueLoop(_, _, _)
UniqueLoop(hs, k, st) ==
  IF k > Len(hs) THEN st ELSE UniqueLoop(hs, k + 1, UniqueStep(st, hs[k]))

get_unique_headers(hs) ==
  UniqueLoop(hs, 1, [seen |-> [x \in {} |-> 0], unique |-> <<>>]).unique

UNIQUE_HEADERS == get_unique_headers(KW_TEMPLATE_HEADERS)

(***************************************************************************)
(* main: the per-record mapping (the body of "for _, row in df.iterrows()")*)
(***************************************************************************)
At(rd, k) == rd[k + 1]
Put(rd, k, v) == [rd EXCEPT ![k + 1] = v]

Y == <<"Y">>
USA == <<"U", "S", "A">>
Home == <<"H", "o", "m", "e">>
X == <<"X">>
SELLERS_TAG == <<"R","E","A","L"," ","I","N","T","E","N","T",".",
                 "S","E","L","L","E","R","S">>
CommaSpace == <<",", " ">>

\* faulty variant: a row narrower than the template
EmptyRowShort == [k \in 1..(Len(KW_TEMPLATE_HEADERS) - 2) |-> <<>>]

\* row_data = [""] * len(KW_TEMPLATE_HEADERS)
EmptyRow == [k \in 1..Len(KW_TEMPLATE_HEADERS) |-> <<>>]

\* def get_val(col_name)
get_val(row, col_name) ==
  LET val == row_get(row, col_name, Str(<<>>))
  IN  IF ~pd_isna(val) THEN strip(str(val)) ELSE <<>>

\* 1. Names
Names(row, rd) ==
  Put(Put(rd, 0, get_val(row, "first_name")), 2, get_val(row, "last_name"))

\* faulty variant: phone_2 marked primary as well
PhonesBothPrimary(row, rd) ==
  LET p1 == row_get(row, "phone_1", None)
      r1 == IF ~pd_isna(p1)
            THEN Put(Put(rd, 9, format_phone_number(p1)), 10, Y) ELSE rd
      p2 == row_get(row, "phone_2", None)
  IN  IF ~pd_isna(p2)
      THEN Put(Put(r1, 11, format_phone_number(p2)), 12, Y) ELSE r1

\* 2. Phones
Phones(row, rd) ==
  LET p1 == row_get(row, "phone_1", None)
      r1 == IF ~pd_isna(p1)
            THEN Put(Put(rd, 9, format_phone_number(p1)), 10, Y) ELSE rd
      p2 == row_get(row, "phone_2", None)
  IN  IF ~pd_isna(p2) THEN Put(r1, 11, format_phone_number(p2)) ELSE r1

\* 3. Emails
Emails(row, rd) ==
  LET e1 == row_get(row, "email_1", None)
      r1 == IF ~pd_isna(e1)
            THEN Put(Put(rd, 17, strip(str(e1))), 18, Y) ELSE rd
      e2 == row_get(row, "email_2", None)
  IN  IF ~pd_isna(e2) THEN Put(r1, 19, strip(str(e2))) ELSE r1

\* faulty variant: city, state and zip code written whatever the address
AddressAlways(row, rd) ==
  LET addr == get_val(row, "address")
      r1 == Put(Put(Put(rd, 25, get_val(row, "city")),
                    26, get_val(row, "state")), 27, get_val(row, "zip_code"))
  IN  IF addr # <<>>
      THEN Put(Put(Put(r1, 23, addr), 28, USA), 29, Home)
      ELSE r1

\* 4. Address (Block 1 - Indices 23-30)
Address(row, rd) ==
  LET addr == get_val(row, "address")
  IN  IF addr # <<>>
      THEN Put(Put(Put(Put(Put(Put(rd, 23, addr),
                                   25, get_val(row, "city")),
                               26, get_val(row, "state")),
                           27, get_val(row, "zip_code")),
                       28, USA),
                   29, Home)
      ELSE rd

\* faulty variant: the Sellers value compared without .upper()
TagsCaseSensitive(row, tags) ==
  LET l1 == IF tags # <<>> THEN <<tags>> ELSE <<>>
      l2 == IF "Sellers" \in DOMAIN row
            THEN LET sellers_val == strip(str(row_get(row, "Sellers", Str(<<>>))))
                 IN  IF sellers_val = X THEN Append(l1, SELLERS_TAG) ELSE l1
            ELSE l1
  IN  IF l2 # <<>> THEN join(CommaSpace, l2) ELSE <<>>

\* 5. Metadata: the tags list and its join
Tags(row, tags) ==
  LET l1 == IF tags # <<>> THEN <<tags>> ELSE <<>>
      l2 == IF "Sellers" \in DOMAIN row
            THEN LET sellers_val ==
                       upper(strip(str(row_get(row, "Sellers", Str(<<>>)))))
                 IN  IF sellers_val = X THEN Append(l1, SELLERS_TAG) ELSE l1
            ELSE l1
  IN  IF l2 # <<>> THEN join(CommaSpace, l2) ELSE <<>>

Metadata(row, tags, source, rd) ==
  Put(Put(Put(rd, 47, Tags(row, tags)), 48, source), 49, get_val(row, "insight"))

\* The whole loop body: the row appended to output_rows for one record.
MapRecord(row, tags, source) ==
  Metadata(row, tags, source,
           Address(row, Emails(row, Phones(row, Names(row, EmptyRow)))))

\* missing = [c for c in REQUIRED_COLUMNS if c not in df.columns]
IsMissing(columns, c) == c \notin columns

\* faulty variant: only the first missing name is kept
MissingFirstOnly(columns) ==
  LET all == SelectSeq(REQUIRED_COLUMNS, LAMBDA c : IsMissing(columns, c))
  IN  IF all = <<>> THEN <<>> ELSE <<all[1]>>

Missing(columns) == SelectSeq(REQUIRED_COLUMNS, LAMBDA c : IsMissing(columns, c))

\* faulty variant: the new row put in front
PrependRow(rows, rd) == <<rd>> \o rows

\* output_rows.append(row_data)
AppendRow(rows, rd) == Append(rows, rd)

(***************************************************************************)
(* Inputs.                                                                 *)
(***************************************************************************)
T_Ann == <<"A", "n", "n">>
T_AnnPadded == <<" ", "A", "n", "n", " ">>
T_Bob == <<"B", "o", "b">>
T_Cy == <<"C", "y">>
T_Lee == <<"L", "e", "e">>
T_Ray == <<"R", "a", "y">>
T_Fox == <<"F", "o", "x">>
T_Phone1 == <<"5","5","5","1","2","3","4","5","6","7">>
T_Phone2 == <<"5","5","5","9","8","7","6","5","4","3">>
T_Phone2Punct == <<"(","5","5","5",")"," ","9","8","7","-","6","5","4","3">>
T_Short == <<"1","2","3","4","5">>
T_Blank == <<" ">>
T_Email1 == <<" ", "a", "@", "b", ".", "c", "o", " ">>
T_Email2 == <<"w", "@", "x", ".", "i", "o">>
T_Addr == <<" ", "1", " ", "M", "a", "i", "n">>
T_City == <<" ", "R", "o", "m", "e", " ">>
T_State == <<"N", "Y">>
T_Zip == <<" ", "1", "0", "0", "0", "1">>
T_Insight == <<"h", "o", "t", " ">>
T_x == <<"x">>
T_XPadded == <<" ", "X", "\t">>
T_Y == <<"Y">>
T_seller == <<"s", "e", "l", "l", "e", "r">>
T_RealIntent == <<"R","e","a","l"," ","I","n","t","e","n","t">>

\* A column that the header does not name.
Absent == [absent |-> TRUE, na |-> TRUE, s |-> <<>>]
Cell(v) == [absent |-> FALSE, na |-> v.na, s |-> v.s]

\* The row of a one-record table given, per field, a cell or Absent.
MkRow(choice) ==
  [c \in {f \in DOMAIN choice : ~choice[f].absent} |->
     [na |-> choice[c].na, s |-> choice[c].s]]

Restrict(row, columns) == [c \in (DOMAIN row) \cap columns |-> row[c]]

NoResult == [shown |-> FALSE, columns |-> <<>>, data |-> <<>>]
NoCsv == [offered |-> FALSE, header |-> <<>>, data |-> <<>>]
NoDf == [columns |-> {}, rows |-> <<>>]

Params == { <<<<>>, T_RealIntent>>, <<T_seller, T_RealIntent>>, <<T_seller, <<>>>>,
            <<T_Blank, T_RealIntent>> }

Idle ==
  /\ phone_value = NaN /\ phone_out = <<>> /\ phone_again = <<>>
  /\ headers = <<>> /\ unique = <<>>

ConvStart ==
  /\ pc = "start"
  /\ missing = <<>> /\ i = 0 /\ output_rows = <<>>
  /\ result = NoResult /\ csv = NoCsv

\* Tables of up to MaxRows records with distinct names, under headers that
\* name both, one or none of the required columns.
BatchRecords ==
  { [first_name |-> Str(T_Ann), last_name |-> Str(T_Lee),
     phone_1 |-> Str(T_Phone1), Sellers |-> Str(T_x)],
    [first_name |-> Str(T_Bob), last_name |-> Str(T_Ray),
     phone_1 |-> NaN, Sellers |-> Str(T_Y)],
    [first_name |-> Str(T_Cy), last_name |-> Str(T_Fox),
     phone_1 |-> Str(T_Short), Sellers |-> NaN] }

BatchColumns ==
  { {"phone_1", "Sellers"} \cup req : req \in SUBSET {"first_name", "last_name"} }

InitBatch ==
  /\ ConvStart /\ Idle
  /\ uploaded \in BOOLEAN
  /\ \E par \in Params : custom_tags = par[1] /\ source_val = par[2]
  /\ IF uploaded
     THEN \E columns \in BatchColumns, n \in 0..MaxRows :
            \E rs \in [1..n -> BatchRecords] :
              df = [columns |-> columns,
                    rows |-> [k \in 1..n |-> Restrict(rs[k], columns)]]
     ELSE df = NoDf

\* One-record tables over the optional fields the mapper reads.
InitRecord ==
  /\ ConvStart /\ Idle
  /\ uploaded = TRUE
  /\ \E par \in Params : custom_tags = par[1] /\ source_val = par[2]
  /\ \E p1 \in {Absent, Cell(NaN), Cell(Str(T_Phone1)), Cell(Str(T_Blank)),
                Cell(Str(T_Short))},
        p2 \in {Absent, Cell(NaN), Cell(Str(T_Phone2Punct))},
        e1 \in {Absent, Cell(NaN), Cell(Str(T_Blank)), Cell(Str(T_Email1))},
        e2 \in {Cell(NaN), Cell(Str(T_Email2))},
        ad \in {Absent, Cell(NaN), Cell(Str(T_Blank)), Cell(Str(T_Addr))},
        ci \in {Absent, Cell(Str(T_City))},
        sa \in {Cell(NaN), Cell(Str(T_State))},
        se \in {Absent, Cell(NaN), Cell(Str(T_x)), Cell(Str(T_XPadded)),
                Cell(Str(T_Y))} :
        LET row == MkRow([first_name |-> Cell(Str(T_AnnPadded)),
                          last_name |-> Cell(Str(T_Lee)),
                          phone_1 |-> p1, phone_2 |-> p2,
                          email_1 |-> e1, email_2 |-> e2,
                          address |-> ad, city |-> ci, state |-> sa,
                          zip_code |-> Cell(Str(T_Zip)),
                          insight |-> Cell(Str(T_Insight)),
                          Sellers |-> se])
        IN  df = [columns |-> DOMAIN row, rows |-> <<row>>]

(***************************************************************************)
(* main                                                                    *)
(***************************************************************************)
\* if uploaded_file is None: return
NoFile ==
  /\ pc = "start" /\ ~uploaded
  /\ pc' = "returned"
  /\ UNCHANGED <<convVars, phoneVars, headerVars>>

\* if missing: st.error(...); return
MissingColumns ==
  /\ pc = "start" /\ uploaded
  /\ Missing(df.columns) # <<>>
  /\ missing' = Missing(df.columns)
  /\ pc' = "error"
  /\ UNCHANGED <<uploaded, df, custom_tags, source_val, i, output_rows, result, csv,
                 phoneVars, headerVars>>

\* output_rows = []
StartLoop ==
  /\ pc = "start" /\ uploaded
  /\ Missing(df.columns) = <<>>
  /\ missing' = <<>>
  /\ output_rows' = <<>>
  /\ i' = 1
  /\ pc' = "loop"
  /\ UNCHANGED <<uploaded, df, custom_tags, source_val, result, csv,
                 phoneVars, headerVars>>

\* one iteration of "for _, row in df.iterrows()"
MapRow ==
  /\ pc = "loop" /\ i <= Len(df.rows)
  /\ output_rows' = AppendRow(output_rows, MapRecord(df.rows[i], custom_tags, source_val))
  /\ i' = i + 1
  /\ UNCHANGED <<pc, uploaded, df, custom_tags, source_val, missing, result, csv,
                 phoneVars, headerVars>>

\* pd.DataFrame(output_rows, columns=UNIQUE_HEADERS) and
\* result.to_csv(..., header=KW_TEMPLATE_HEADERS): both raise when the number
\* of labels differs from the width of the data.
Export ==
  /\ pc = "loop" /\ i > Len(df.rows)
  /\ IF /\ \A k \in 1..Len(output_rows) : Len(output_rows[k]) = Len(UNIQUE_HEADERS)
        /\ Len(KW_TEMPLATE_HEADERS) = Len(UNIQUE_HEADERS)
     THEN /\ result' = [shown |-> TRUE, columns |-> UNIQUE_HEADERS, data |-> output_rows]
          /\ csv' = [offered |-> TRUE, header |-> KW_TEMPLATE_HEADERS, data |-> output_rows]
          /\ pc' = "done"
     ELSE /\ pc' = "raised"
          /\ UNCHANGED <<result, csv>>
  /\ UNCHANGED <<uploaded, df, custom_tags, source_val, missing, i, output_rows,
                 phoneVars, headerVars>>

Next == NoFile \/ MissingColumns \/ StartLoop \/ MapRow \/ Export

Spec == InitBatch /\ [][Next]_vars

InitAny == InitBatch \/ InitRecord

SpecRecord == InitAny /\ [][Next]_vars

(***************************************************************************)
(* format_phone_number on its own.                                         *)
(***************************************************************************)
DigitSeq == <<"0", "1", "2", "3", "4", "5", "6", "7", "8", "9">>

\* n digits, the k-th digit of the whole value being DigitSeq[k mod 10]
Run(start, n) == [j \in 1..n |-> DigitSeq[((start + j - 1) % Len(DigitSeq)) + 1]]

Pads == {<<>>, <<" ">>}
Seps == {<<>>, <<"-">>, <<" ">>, <<"x">>}

InitPhone ==
  /\ pc = "phone"
  /\ uploaded = FALSE /\ df = NoDf /\ custom_tags = <<>> /\ source_val = <<>>
  /\ missing = <<>> /\ i = 0 /\ output_rows = <<>>
  /\ result = NoResult /\ csv = NoCsv
  /\ headers = <<>> /\ unique = <<>>
  /\ phone_out = <<>> /\ phone_again = <<>>
  /\ \/ phone_value = NaN
     \/ \E pa \in Pads, pb \in Pads, s1 \in Seps, s2 \in Seps,
           n1 \in 0..MaxRun, n2 \in 0..MaxRun, n3 \in 0..MaxRun :
          phone_value = Str(pa \o Run(1, n1) \o s1 \o Run(n1 + 1, n2) \o s2
                              \o Run(n1 + n2 + 1, n3) \o pb)

FormatPhone ==
  /\ pc = "phone"
  /\ phone_out' = format_phone_number(phone_value)
  /\ pc' = "formatted"
  /\ UNCHANGED <<convVars, headerVars, phone_value, phone_again>>

\* the result, a string, formatted once more
FormatAgain ==
  /\ pc = "formatted"
  /\ phone_again' = format_phone_number(Str(phone_out))
  /\ pc' = "reformatted"
  /\ UNCHANGED <<convVars, headerVars, phone_value, phone_out>>

NextPhone == FormatPhone \/ FormatAgain

SpecPhone == InitPhone /\ [][NextPhone]_vars

(***************************************************************************)
(* get_unique_headers on its own.                                          *)
(***************************************************************************)
Labels == {"A", "B", "A.1", ""}

InitHeaders ==
  /\ pc = "headers"
  /\ uploaded = FALSE /\ df = NoDf /\ custom_tags = <<>> /\ source_val = <<>>
  /\ missing = <<>> /\ i = 0 /\ output_rows = <<>>
  /\ result = NoResult /\ csv = NoCsv
  /\ phone_value = NaN /\ phone_out = <<>> /\ phone_again = <<>>
  /\ unique = <<>>
  /\ \E n \in 0..MaxLabels : headers \in [1..n -> Labels]

UniqueHeaders ==
  /\ pc = "headers"
  /\ unique' = get_unique_headers(headers)
  /\ pc' = "unique"
  /\ UNCHANGED <<convVars, phoneVars, headers>>

NextHeaders == UniqueHeaders

SpecHeaders == InitHeaders /\ [][NextHeaders]_vars

(***************************************************************************)
(* Properties.                                                             *)
(***************************************************************************)
Range(f) == {f[k] : k \in DOMAIN f}

\* t is s without its leading and trailing whitespace
Trimmed(s, t) ==
  \E a \in 0..Len(s), b \in 0..Len(s) :
    /\ a + b <= Len(s)
    /\ t = SubSeq(s, a + 1, Len(s) - b)
    /\ \A j \in 1..a : s[j] \in Whitespace
    /\ \A j \in (Len(s) - b + 1)..Len(s) : s[j] \in Whitespace
    /\ t # <<>> => (t[1] \notin Whitespace /\ t[Len(t)] \notin Whitespace)

\* the field of a record is present: the column exists and the value is not missing
Present(row, f) == f \in DOMAIN row /\ ~row[f].na

\* v is the trimmed text of field f, or empty when the field is not present
TrimmedField(row, f, v) ==
  IF Present(row, f) THEN Trimmed(row[f].s, v) ELSE v = <<>>

\* the records mapped so far, by position
Mapped == 1..Len(output_rows)

PhoneFlags == {10, 12, 14, 16}

\* C1 as stated: every output row has exactly 53 positions and the Output
\* Schema has exactly 53 labels.
C1_RowsAndSchemaHave53 ==
  output_rows # <<>> =>
    /\ Len(KW_TEMPLATE_HEADERS) = 53
    /\ \A k \in Mapped : Len(output_rows[k]) = 53

\* C1 amended: every output row has exactly 55 positions, the Output Schema
\* has exactly 55 labels, and so does the header of the exported file, so
\* header count and row length are always equal.
C1_RowsAndSchemaHave55 ==
  /\ Len(KW_TEMPLATE_HEADERS) = 55
  /\ \A k \in Mapped : Len(output_rows[k]) = 55
  /\ csv.offered =>
       /\ Len(csv.header) = 55
       /\ \A k \in 1..Len(csv.data) : Len(csv.data[k]) = Len(csv.header)

C1_Witness ==
  /\ pc = "done" /\ csv.offered
  /\ Len(csv.data) = 1 /\ Len(csv.data[1]) = Len(csv.header)
  /\ Present(df.rows[1], "phone_1") /\ Present(df.rows[1], "address")

\* C2: a header lacking required names ends the conversion in the error
\* state, reporting exactly the missing required names, with no record
\* mapped, no output row and nothing exported; a header with both required
\* names never raises the missing-field error.
C2_MissingRequiredFields ==
  LET lacking == Range(REQUIRED_COLUMNS) \ df.columns
  IN  /\ (uploaded /\ lacking # {}) =>
           /\ pc \in {"start", "error"}
           /\ i = 0 /\ output_rows = <<>>
           /\ ~result.shown /\ ~csv.offered
      /\ pc = "error" =>
           /\ uploaded /\ lacking # {}
           /\ Range(missing) = lacking
           /\ Len(missing) = Cardinality(lacking)
      /\ lacking = {} => (pc # "error" /\ missing = <<>>)

C2_Witness ==
  /\ pc = "error" /\ missing = <<"last_name">>
  /\ Len(df.rows) >= 1 /\ output_rows = <<>> /\ ~csv.offered

\* C3 as stated: at most one of the four phone primary flags is "Y", and
\* when a phone is present the flag marked is that of the first phone
\* present (phone_1 if present, otherwise phone_2).
C3_FirstPresentPhoneIsPrimary ==
  \A k \in Mapped :
    LET row == df.rows[k]
        rd == output_rows[k]
    IN  /\ Cardinality({f \in PhoneFlags : At(rd, f) = Y}) <= 1
        /\ Present(row, "phone_1") => At(rd, 10) = Y
        /\ (~Present(row, "phone_1") /\ Present(row, "phone_2")) => At(rd, 12) = Y

\* C3 amended: at most one of the four phone primary flags is "Y"; the Cell
\* Phone flag is "Y" exactly when phone_1 is present, and the Home, Work and
\* Other Phone flags are always empty (a record with only phone_2 has no
\* primary phone).
C3_OnlyCellPhoneIsPrimary ==
  \A k \in Mapped :
    LET row == df.rows[k]
        rd == output_rows[k]
    IN  /\ Cardinality({f \in PhoneFlags : At(rd, f) = Y}) <= 1
        /\ At(rd, 10) = (IF Present(row, "phone_1") THEN Y ELSE <<>>)
        /\ \A f \in PhoneFlags \ {10} : At(rd, f) = <<>>

C3_Witness ==
  /\ Len(output_rows) = 1
  /\ ~Present(df.rows[1], "phone_1") /\ Present(df.rows[1], "phone_2")
  /\ At(output_rows[1], 11) # <<>>
  /\ \A f \in PhoneFlags : At(output_rows[1], f) = <<>>

\* C4: the rows collected so far are the mapped images, in order, of the
\* records read so far; after a successful conversion of n records the
\* output table has n rows, the k-th being the image of the k-th record.
C4_OutputOrderIsInputOrder ==
  /\ pc \in {"loop", "done"} =>
       /\ Len(output_rows) = i - 1
       /\ Len(output_rows) <= Len(df.rows)
       /\ \A k \in Mapped :
            /\ output_rows[k] = MapRecord(df.rows[k], custom_tags, source_val)
            /\ TrimmedField(df.rows[k], "first_name", At(output_rows[k], 0))
            /\ TrimmedField(df.rows[k], "last_name", At(output_rows[k], 2))
  /\ pc = "done" =>
       /\ Len(output_rows) = Len(df.rows)
       /\ csv.data = output_rows /\ result.data = output_rows

C4_Witness ==
  /\ pc = "done" /\ Len(df.rows) >= 3
  /\ \A j \in 1..Len(df.rows), k \in 1..Len(df.rows) :
       j # k => df.rows[j]["first_name"] # df.rows[k]["first_name"]
  /\ \A k \in 1..Len(df.rows) : At(csv.data[k], 0) = df.rows[k]["first_name"].s

\* C5: format_phone_number returns the empty string for a missing value, the
\* digits grouped 3-3-4 with dashes for a value with exactly 10 digits, and the
\* whitespace-trimmed original for any other digit count; formatting its
\* result once more changes nothing.
C5_FormatPhoneNumber ==
  /\ pc \in {"formatted", "reformatted"} =>
       IF phone_value.na THEN phone_out = <<>>
       ELSE LET d == SelectSeq(phone_value.s, LAMBDA c : c \in Digits)
            IN  IF Len(d) = 10
                THEN /\ Len(phone_out) = 12
                     /\ \A j \in 1..3 : phone_out[j] = d[j]
                     /\ phone_out[4] = "-"
                     /\ \A j \in 4..6 : phone_out[j + 1] = d[j]
                     /\ phone_out[8] = "-"
                     /\ \A j \in 7..10 : phone_out[j + 2] = d[j]
                ELSE Trimmed(phone_value.s, phone_out)
  /\ pc = "reformatted" => phone_again = phone_out

C5_Witness ==
  /\ pc = "reformatted"
  /\ ~phone_value.na
  /\ Len(SelectSeq(phone_value.s, LAMBDA c : c \in Digits)) = 10
  /\ Len(phone_value.s) > 12
  /\ phone_out = <<"1","2","3","-","4","5","6","-","7","8","9","0">>
  /\ phone_again = phone_out

\* C6: get_unique_headers keeps the length of its input; the label at a
\* position is unchanged when it occurs at no earlier position, and otherwise
\* is label.N, N being the number of earlier positions holding the same label.
C6_UniqueLabels ==
  pc = "unique" =>
    /\ Len(unique) = Len(headers)
    /\ \A k \in 1..Len(headers) :
         LET prior == Cardinality({j \in 1..(k - 1) : headers[j] = headers[k]})
         IN  unique[k] = IF prior = 0 THEN headers[k]
                         ELSE headers[k] \o "." \o ToString(prior)
    /\ headers = <<"A", "B", "A", "A">> => unique = <<"A", "B", "A.1", "A.2">>

C6_Witness ==
  /\ pc = "unique"
  /\ headers = <<"A", "B", "A", "A">>
  /\ unique = <<"A", "B", "A.1", "A.2">>

\* C7: the Display Schema shown with the converted rows has the length of the
\* Output Schema written to the file, holds no two equal labels, and at every
\* position is the Output Schema label, unchanged or followed by ".N"; it
\* differs only where the label repeats an earlier one.
C7_DisplaySchema ==
  pc = "done" =>
    /\ result.shown /\ csv.offered
    /\ Len(result.columns) = Len(csv.header)
    /\ \A j \in 1..Len(result.columns), k \in 1..Len(result.columns) :
         j # k => result.columns[j] # result.columns[k]
    /\ \A k \in 1..Len(csv.header) :
         \/ result.columns[k] = csv.header[k]
         \/ /\ \E j \in 1..(k - 1) : csv.header[j] = csv.header[k]
            /\ \E n \in 1..Len(csv.header) :
                 result.columns[k] = csv.header[k] \o "." \o ToString(n)

C7_Witness ==
  /\ pc = "done" /\ result.shown
  /\ \E k \in 1..Len(result.columns) :
       csv.header[k] = "" /\ result.columns[k] = ".2"
  /\ \E k \in 1..Len(result.columns) :
       csv.header[k] = "Is Primary? (mark Y)"
         /\ result.columns[k] = "Is Primary? (mark Y).3"

\* the Sellers field of the record, trimmed and upper-cased, is "X"
SellersIsX(row) ==
  /\ Present(row, "Sellers")
  /\ \E v \in {<<"x">>, <<"X">>} : Trimmed(row["Sellers"].s, v)

\* C8: the Tags position is the caller's tag string if non-empty, followed
\* by "REAL INTENT.SELLERS" iff the Sellers field trimmed and upper-cased is
\* "X", the two joined by ", "; it is empty when neither applies.
C8_Tags ==
  \A k \in Mapped :
    LET row == df.rows[k]
        tags == At(output_rows[k], 47)
    IN  /\ tags =
             IF custom_tags # <<>> /\ SellersIsX(row)
             THEN custom_tags \o <<",", " ">> \o SELLERS_TAG
             ELSE IF custom_tags # <<>> THEN custom_tags
             ELSE IF SellersIsX(row) THEN SELLERS_TAG
             ELSE <<>>
        /\ (custom_tags = T_seller /\ Present(row, "Sellers")
              /\ row["Sellers"].s = <<"x">>) =>
             tags = <<"s","e","l","l","e","r",",", " ","R","E","A","L"," ",
                      "I","N","T","E","N","T",".","S","E","L","L","E","R","S">>
        /\ (custom_tags = T_seller
              /\ \/ "Sellers" \notin DOMAIN row
                 \/ row["Sellers"].na
                 \/ row["Sellers"].s = <<"Y">>) =>
             tags = <<"s","e","l","l","e","r">>

C8_Witness ==
  /\ Len(output_rows) = 1
  /\ custom_tags = T_seller
  /\ Present(df.rows[1], "Sellers") /\ df.rows[1]["Sellers"].s = <<"x">>
  /\ At(output_rows[1], 47) = T_seller \o <<",", " ">> \o SELLERS_TAG

\* C9: address block 1 is filled only for a record whose address is
\* non-empty after trimming (line one, city, state, zip code trimmed,
\* country "USA", label "Home", line two and the separator empty); otherwise
\* all of block 1 is empty whatever city/state/zip_code hold.  Blocks 2 and 3
\* are empty in every row.
C9_AddressBlocks ==
  \A k \in Mapped :
    LET row == df.rows[k]
        rd == output_rows[k]
        has_address == Present(row, "address") /\ ~Trimmed(row["address"].s, <<>>)
    IN  /\ IF has_address
           THEN /\ Trimmed(row["address"].s, At(rd, 23))
                /\ At(rd, 24) = <<>>
                /\ TrimmedField(row, "city", At(rd, 25))
                /\ TrimmedField(row, "state", At(rd, 26))
                /\ TrimmedField(row, "zip_code", At(rd, 27))
                /\ At(rd, 28) = <<"U", "S", "A">>
                /\ At(rd, 29) = <<"H", "o", "m", "e">>
                /\ At(rd, 30) = <<>>
           ELSE \A p \in 23..30 : At(rd, p) = <<>>
        /\ \A p \in 31..46 : At(rd, p) = <<>>

C9_Witness ==
  /\ Len(output_rows) = 1
  /\ Present(df.rows[1], "address") /\ Trimmed(df.rows[1]["address"].s, <<>>)
  /\ Present(df.rows[1], "city") /\ Present(df.rows[1], "state")
  /\ \A p \in 23..30 : At(output_rows[1], p) = <<>>

\* C10: a primary flag is set only next to a value: a "Y" in the Cell Phone
\* flag position implies a non-empty Cell Phone position, and a "Y" in the
\* Personal Email flag position implies a non-empty Personal Email position.
C10_PrimaryFlagOnlyNextToValue ==
  \A k \in Mapped :
    LET rd == output_rows[k]
    IN  /\ At(rd, 10) = Y => At(rd, 9) # <<>>
        /\ At(rd, 18) = Y => At(rd, 17) # <<>>

====
